---- MODULE Spec2Model ----
(***************************************************************************)
(* Model of the PM internship allocation engine (src/code.py):             *)
(* AIMatchingEngine (factor scorers and weighted aggregate),               *)
(* InternshipDatabase (the candidates, internships and matches tables) and *)
(* PMInternshipSystem (run_matching_algorithm, display, export).           *)
(*                                                                         *)
(* Representation.                                                         *)
(*  - A Python str is a sequence of one-character strings, so that         *)
(*    str.lower(), ==, `in` (substring) and str.split() are computed.      *)
(*  - A Python float is an exact rational.  Sub-scores are integers in     *)
(*    thousandths times the number of required skills (the only divisor    *)
(*    that is not a power of ten); cgpa is an integer in hundredths.       *)
(*    Binary floating-point error (about 1e-14) is not modelled.           *)
(*  - datetime.now() is the ordinal of the run that reads it: the number   *)
(*    of runs completed before it (`completed`).                           *)
(***************************************************************************)
EXTENDS Integers, Sequences, FiniteSets, TLC

(***************************************************************************)
(* Bounds                                                                  *)
(***************************************************************************)
MaxCandSkills == 3
MaxReqSkills == 2

(***************************************************************************)
(* str                                                                     *)
(***************************************************************************)
\* str.lower() of one character
lower_table ==
  [c \in {"A", "B", "C", "D", "E", "F", "G", "H", "I", "J", "K", "L", "M",
          "N", "O", "P", "Q", "R", "S", "T", "U", "V", "W", "X", "Y", "Z"} |->
     CASE c = "A" -> "a" [] c = "B" -> "b" [] c = "C" -> "c" [] c = "D" -> "d"
       [] c = "E" -> "e" [] c = "F" -> "f" [] c = "G" -> "g" [] c = "H" -> "h"
       [] c = "I" -> "i" [] c = "J" -> "j" [] c = "K" -> "k" [] c = "L" -> "l"
       [] c = "M" -> "m" [] c = "N" -> "n" [] c = "O" -> "o" [] c = "P" -> "p"
       [] c = "Q" -> "q" [] c = "R" -> "r" [] c = "S" -> "s" [] c = "T" -> "t"
       [] c = "U" -> "u" [] c = "V" -> "v" [] c = "W" -> "w" [] c = "X" -> "x"
       [] c = "Y" -> "y" [] c = "Z" -> "z"]

lower_char(c) == IF c \in DOMAIN lower_table THEN lower_table[c] ELSE c

\* s.lower()
lower(s) == [i \in 1..Len(s) |-> lower_char(s[i])]

\* a in b, for two str: a occurs in b as a contiguous substring
str_in(a, b) ==
  \E k \in 0..(Len(b) - Len(a)) : \A j \in 1..Len(a) : b[k + j] = a[j]

\* x in xs, for a list xs
list_in(x, xs) == \E i \in 1..Len(xs) : xs[i] = x

\* s.split(): the maximal runs of non-blank characters, in order
RECURSIVE split_from(_, _, _)
split_from(s, i, word) ==
  IF i > Len(s)
    THEN (IF word = <<>> THEN <<>> ELSE <<word>>)
    ELSE IF s[i] = " "
      THEN (IF word = <<>> THEN <<>> ELSE <<word>>) \o split_from(s, i + 1, <<>>)
      ELSE split_from(s, i + 1, Append(word, s[i]))

split(s) == split_from(s, 1, <<>>)

Min(a, b) == IF a <= b THEN a ELSE b

(***************************************************************************)
(* AIMatchingEngine.__init__                                               *)
(***************************************************************************)
\* self.weights, in hundredths
weights ==
  [skills |-> 40, location |-> 20, sector |-> 15,
   qualification |-> 10, diversity |-> 10, academic |-> 5]

aspirational_districts ==
  << <<"R","u","r","a","l"," ","K","a","r","n","a","t","a","k","a">>, <<"S","a","b","a","r","k","a","n","t","h","a">>, <<"A","d","i","l","a","b","a","d">>, <<"D","a","n","t","e","w","a","d","a">>,
     <<"N","a","x","a","l","b","a","r","i">>, <<"K","a","l","a","h","a","n","d","i">>, <<"N","u","a","p","a","d","a">>, <<"K","o","r","a","p","u","t">> >>

(***************************************************************************)
(* AIMatchingEngine._are_similar_skills                                    *)
(***************************************************************************)
skill_groups ==
  << << <<"p","y","t","h","o","n">>, <<"j","a","v","a">>, <<"j","a","v","a","s","c","r","i","p","t">>, <<"c","+","+">>, <<"c","o","d","i","n","g">>, <<"p","r","o","g","r","a","m","m","i","n","g">> >>,
     << <<"d","a","t","a"," ","a","n","a","l","y","s","i","s">>, <<"a","n","a","l","y","t","i","c","s">>, <<"s","q","l">>, <<"d","a","t","a","b","a","s","e">>, <<"d","a","t","a"," ","s","c","i","e","n","c","e">> >>,
     << <<"u","i","/","u","x">>, <<"f","i","g","m","a">>, <<"p","h","o","t","o","s","h","o","p">>, <<"d","e","s","i","g","n">>, <<"p","r","o","t","o","t","y","p","i","n","g">> >>,
     << <<"m","a","r","k","e","t","i","n","g">>, <<"s","o","c","i","a","l"," ","m","e","d","i","a">>, <<"c","o","n","t","e","n","t"," ","w","r","i","t","i","n","g">>, <<"s","e","o">> >>,
     << <<"f","i","n","a","n","c","e">>, <<"a","c","c","o","u","n","t","i","n","g">>, <<"e","x","c","e","l">>, <<"f","i","n","a","n","c","i","a","l"," ","m","o","d","e","l","i","n","g">> >> >>

\* the loop over skill_groups.values(), given the two lowered skills
in_same_group(skill1_lower, skill2_lower) ==
  \E g \in 1..Len(skill_groups) :
    list_in(skill1_lower, skill_groups[g]) /\ list_in(skill2_lower, skill_groups[g])

are_similar_skills(skill1, skill2) == in_same_group(lower(skill1), lower(skill2))

(***************************************************************************)
(* AIMatchingEngine.calculate_skills_match                                 *)
(* `matches` is counted in tenths: 10 exact, 7 partial, 5 similar.         *)
(* The code lowers both skills at every comparison; here each list is      *)
(* lowered once (lowered_skills) and the comparisons read the lowered      *)
(* labels, which is the same value since lower() is a function of its      *)
(* argument and lower(lower(s)) = lower(s).                                *)
(***************************************************************************)
lowered_skills(skills) == [k \in 1..Len(skills) |-> lower(skills[k])]

\* the three-way test of the inner loop body for one (req_skill, cand_skill),
\* both lowered: 0 when no branch is taken (the loop goes on to the next
\* cand_skill)
skill_relatedness(req_lower, cand_lower) ==
  IF req_lower = cand_lower THEN 10
  ELSE IF str_in(req_lower, cand_lower) \/ str_in(cand_lower, req_lower) THEN 7
  ELSE IF in_same_group(req_lower, cand_lower) THEN 5
  ELSE 0

\* a faulty variant of skill_scan (below): the loop does not break, and the
\* best branch taken by any cand_skill from position j on is what is added
RECURSIVE skill_scan_best(_, _, _)
skill_scan_best(req_lower, cands_lower, j) ==
  IF j > Len(cands_lower) THEN 0
  ELSE LET r == skill_relatedness(req_lower, cands_lower[j])
           rest == skill_scan_best(req_lower, cands_lower, j + 1)
       IN  IF r >= rest THEN r ELSE rest

\* the inner loop from position j on: the first branch taken adds and breaks
RECURSIVE skill_scan(_, _, _)
skill_scan(req_lower, cands_lower, j) ==
  IF j > Len(cands_lower) THEN 0
  ELSE LET r == skill_relatedness(req_lower, cands_lower[j])
       IN  IF r > 0 THEN r ELSE skill_scan(req_lower, cands_lower, j + 1)

\* the outer loop: matches, in tenths, after required_skills[1..i]
RECURSIVE skill_matches(_, _, _)
skill_matches(cands_lower, reqs_lower, i) ==
  IF i = 0 THEN 0
  ELSE skill_matches(cands_lower, reqs_lower, i - 1)
       + skill_scan(reqs_lower[i], cands_lower, 1)

\* a faulty variant: matches is divided by len(candidate_skills)
skills_match_per_candidate_skill(candidate_skills, required_skills) ==
  IF candidate_skills = <<>> \/ required_skills = <<>>
    THEN [num |-> 0, den |-> 1]
    ELSE LET matches == skill_matches(lowered_skills(candidate_skills),
                                      lowered_skills(required_skills),
                                      Len(required_skills))
             total == Len(candidate_skills)
         IN  [num |-> Min(matches, 10 * total), den |-> 10 * total]

\* The result as a fraction [num, den]: min(matches / total_required, 1.0)
calculate_skills_match(candidate_skills, required_skills) ==
  IF candidate_skills = <<>> \/ required_skills = <<>>
    THEN [num |-> 0, den |-> 1]
    ELSE LET cands_lower == lowered_skills(candidate_skills)
             reqs_lower == lowered_skills(required_skills)
             matches == skill_matches(cands_lower, reqs_lower, Len(required_skills))
             total_required == Len(required_skills)
         IN  [num |-> Min(matches, 10 * total_required),
              den |-> 10 * total_required]

(***************************************************************************)
(* AIMatchingEngine.calculate_location_score, in thousandths               *)
(***************************************************************************)
None == <<"None">>

state_mapping ==
  << << <<"d","e","l","h","i">>, <<"d","e","l","h","i">> >>, << <<"m","u","m","b","a","i">>, <<"m","a","h","a","r","a","s","h","t","r","a">> >>,
     << <<"b","a","n","g","a","l","o","r","e">>, <<"k","a","r","n","a","t","a","k","a">> >>, << <<"h","y","d","e","r","a","b","a","d">>, <<"t","e","l","a","n","g","a","n","a">> >>,
     << <<"a","h","m","e","d","a","b","a","d">>, <<"g","u","j","a","r","a","t">> >>, << <<"p","u","n","e">>, <<"m","a","h","a","r","a","s","h","t","r","a">> >>,
     << <<"k","o","l","k","a","t","a">>, <<"w","e","s","t"," ","b","e","n","g","a","l">> >>, << <<"c","h","e","n","n","a","i">>, <<"t","a","m","i","l"," ","n","a","d","u">> >> >>

\* state_mapping.get(key)
state_mapping_get(key) ==
  IF \E i \in 1..Len(state_mapping) : state_mapping[i][1] = key
    THEN state_mapping[CHOOSE i \in 1..Len(state_mapping) : state_mapping[i][1] = key][2]
    ELSE None

\* truth value of an Optional[str]
truthy(x) == x # None /\ x # <<>>

calculate_location_score(candidate_location, internship_location) ==
  IF lower(candidate_location) = lower(internship_location) THEN 1000
  ELSE LET cand_state == state_mapping_get(lower(candidate_location))
           intern_state == state_mapping_get(lower(internship_location))
       IN  IF truthy(cand_state) /\ truthy(intern_state) /\ cand_state = intern_state
             THEN 700
             ELSE 300

\* a faulty variant of calculate_diversity_score (below): the sum of the
\* bonuses is returned without min(score, 1.0)
diversity_score_uncapped(candidate) ==
  (IF candidate.category \in { <<"S","C">>, <<"S","T">> } THEN 500
   ELSE IF candidate.category = <<"O","B","C">> THEN 300 ELSE 0)
  + (IF \E d \in 1..Len(aspirational_districts) :
          str_in(lower(aspirational_districts[d]), lower(candidate.district))
       THEN 300 ELSE 0)
  + (IF str_in(<<"r","u","r","a","l">>, lower(candidate.district)) THEN 200 ELSE 0)
  + (IF ~candidate.past_participation THEN 200 ELSE 0)

\* a faulty variant of calculate_diversity_score (below): the rural bonus
\* is an elif of the aspirational-district bonus
diversity_score_one_district_bonus(candidate) ==
  Min((IF candidate.category \in { <<"S","C">>, <<"S","T">> } THEN 500
       ELSE IF candidate.category = <<"O","B","C">> THEN 300 ELSE 0)
      + (IF \E d \in 1..Len(aspirational_districts) :
              str_in(lower(aspirational_districts[d]), lower(candidate.district))
           THEN 300
           ELSE IF str_in(<<"r","u","r","a","l">>, lower(candidate.district)) THEN 200 ELSE 0)
      + (IF ~candidate.past_participation THEN 200 ELSE 0),
      1000)

(***************************************************************************)
(* AIMatchingEngine.calculate_diversity_score, in thousandths              *)
(***************************************************************************)
calculate_diversity_score(candidate) ==
  LET category_bonus ==
        IF candidate.category \in { <<"S","C">>, <<"S","T">> } THEN 500
        ELSE IF candidate.category = <<"O","B","C">> THEN 300
        ELSE 0
      aspirational_bonus ==
        IF \E d \in 1..Len(aspirational_districts) :
             str_in(lower(aspirational_districts[d]), lower(candidate.district))
          THEN 300 ELSE 0
      rural_bonus ==
        IF str_in(<<"r","u","r","a","l">>, lower(candidate.district)) THEN 200 ELSE 0
      first_time_bonus ==
        IF ~candidate.past_participation THEN 200 ELSE 0
      score == category_bonus + aspirational_bonus + rural_bonus + first_time_bonus
  IN  Min(score, 1000)

(***************************************************************************)
(* AIMatchingEngine.calculate_match_score                                  *)
(* A float is a fraction [num, den] with den > 0.                          *)
(***************************************************************************)
\* sector_score, in thousandths
sector_score_of(candidate, internship) ==
  IF lower(candidate.sector) = lower(internship.sector) THEN 1000 ELSE 300

\* qual_score, in thousandths
qual_score_of(candidate, internship) ==
  LET qual_words == split(lower(internship.preferred_qualification))
      cand_qual == lower(candidate.qualifications)
  IN  IF \E w \in 1..Len(qual_words) : str_in(qual_words[w], cand_qual)
        THEN 1000 ELSE 500

\* academic_score = min(candidate.cgpa / 10.0, 1.0), in thousandths
\* (cgpa is kept in hundredths, so cgpa / 10.0 in thousandths is the same integer)
academic_score_of(candidate) == Min(candidate.cgpa, 1000)

calculate_match_score(candidate, internship) ==
  LET skills_score == calculate_skills_match(candidate.skills, internship.required_skills)
      location_score == calculate_location_score(candidate.location, internship.location)
      sector_score == sector_score_of(candidate, internship)
      qual_score == qual_score_of(candidate, internship)
      diversity_score == calculate_diversity_score(candidate)
      academic_score == academic_score_of(candidate)
      den == 1000 * skills_score.den
      \* (sum of sub-score * weight) * 100, over den
      total_score ==
          skills_score.num * 1000 * weights.skills
        + skills_score.den * ( location_score * weights.location
                             + sector_score * weights.sector
                             + qual_score * weights.qualification
                             + diversity_score * weights.diversity
                             + academic_score * weights.academic )
      factors ==
        [skills        |-> [num |-> skills_score.num * 100, den |-> skills_score.den],
         location      |-> [num |-> location_score, den |-> 10],
         sector        |-> [num |-> sector_score, den |-> 10],
         qualification |-> [num |-> qual_score, den |-> 10],
         diversity     |-> [num |-> diversity_score, den |-> 10],
         academic      |-> [num |-> academic_score, den |-> 10]]
  IN  [score |-> [num |-> Min(total_score, 100 * den), den |-> den],
       factors |-> factors]

(***************************************************************************)
(* InternshipDatabase.load_sample_data                                     *)
(* Columns no scorer reads (name, experience, email, phone; company,       *)
(* title, duration, type, description) are left out of the rows.           *)
(***************************************************************************)
Candidate(id, skills, qualifications, location, sector, category, district, past_participation, cgpa) ==
  [id |-> id, skills |-> skills, qualifications |-> qualifications,
   location |-> location, sector |-> sector, category |-> category,
   district |-> district, past_participation |-> past_participation,
   cgpa |-> cgpa]

Internship(id, required_skills, location, sector, capacity, preferred_qualification, stipend) ==
  [id |-> id, required_skills |-> required_skills, location |-> location,
   sector |-> sector, capacity |-> capacity,
   preferred_qualification |-> preferred_qualification, stipend |-> stipend]

sample_candidates ==
  << Candidate(1, << <<"P","y","t","h","o","n">>, <<"D","a","t","a"," ","A","n","a","l","y","s","i","s">>, <<"S","Q","L">> >>, <<"B",".","T","e","c","h"," ","C","S","E">>,
               <<"D","e","l","h","i">>, <<"T","e","c","h","n","o","l","o","g","y">>, <<"G","e","n","e","r","a","l">>, <<"N","e","w"," ","D","e","l","h","i">>, FALSE, 850),
     Candidate(2, << <<"M","a","r","k","e","t","i","n","g">>, <<"C","o","n","t","e","n","t"," ","W","r","i","t","i","n","g">>, <<"S","o","c","i","a","l"," ","M","e","d","i","a">> >>, <<"M","B","A"," ","M","a","r","k","e","t","i","n","g">>,
               <<"M","u","m","b","a","i">>, <<"M","a","r","k","e","t","i","n","g">>, <<"O","B","C">>, <<"T","h","a","n","e">>, FALSE, 780),
     Candidate(3, << <<"F","i","n","a","n","c","e">>, <<"E","x","c","e","l">>, <<"F","i","n","a","n","c","i","a","l"," ","M","o","d","e","l","i","n","g">> >>, <<"B",".","C","o","m">>,
               <<"A","h","m","e","d","a","b","a","d">>, <<"F","i","n","a","n","c","e">>, <<"S","C">>, <<"S","a","b","a","r","k","a","n","t","h","a">>, TRUE, 820),
     Candidate(4, << <<"J","a","v","a">>, <<"S","p","r","i","n","g"," ","B","o","o","t">>, <<"M","i","c","r","o","s","e","r","v","i","c","e","s">> >>, <<"M","C","A">>,
               <<"B","a","n","g","a","l","o","r","e">>, <<"T","e","c","h","n","o","l","o","g","y">>, <<"G","e","n","e","r","a","l">>, <<"R","u","r","a","l"," ","K","a","r","n","a","t","a","k","a">>, FALSE, 910),
     Candidate(5, << <<"U","I","/","U","X">>, <<"F","i","g","m","a">>, <<"U","s","e","r"," ","R","e","s","e","a","r","c","h">> >>, <<"B",".","D","e","s">>,
               <<"H","y","d","e","r","a","b","a","d">>, <<"D","e","s","i","g","n">>, <<"S","T">>, <<"A","d","i","l","a","b","a","d">>, FALSE, 870) >>

sample_internships ==
  << Internship(1, << <<"P","y","t","h","o","n">>, <<"D","a","t","a"," ","A","n","a","l","y","s","i","s">>, <<"M","a","c","h","i","n","e"," ","L","e","a","r","n","i","n","g">> >>,
                <<"D","e","l","h","i">>, <<"T","e","c","h","n","o","l","o","g","y">>, 10, <<"B",".","T","e","c","h","/","M","C","A">>, 25000),
     Internship(2, << <<"M","a","r","k","e","t","i","n","g">>, <<"C","o","n","t","e","n","t"," ","W","r","i","t","i","n","g">>, <<"A","n","a","l","y","t","i","c","s">> >>,
                <<"M","u","m","b","a","i">>, <<"M","a","r","k","e","t","i","n","g">>, 5, <<"M","B","A","/","B","B","A">>, 20000),
     Internship(3, << <<"F","i","n","a","n","c","e">>, <<"E","x","c","e","l">>, <<"F","i","n","a","n","c","i","a","l"," ","M","o","d","e","l","i","n","g">> >>,
                <<"A","h","m","e","d","a","b","a","d">>, <<"F","i","n","a","n","c","e">>, 8, <<"B",".","C","o","m","/","M","B","A"," ","F","i","n","a","n","c","e">>, 22000),
     Internship(4, << <<"U","I","/","U","X">>, <<"F","i","g","m","a">>, <<"P","r","o","t","o","t","y","p","i","n","g">> >>,
                <<"H","y","d","e","r","a","b","a","d">>, <<"D","e","s","i","g","n">>, 6, <<"B",".","D","e","s","/","M",".","D","e","s">>, 18000),
     Internship(5, << <<"J","a","v","a">>, <<"S","p","r","i","n","g"," ","B","o","o","t">>, <<"D","a","t","a","b","a","s","e">> >>,
                <<"B","a","n","g","a","l","o","r","e">>, <<"T","e","c","h","n","o","l","o","g","y">>, 12, <<"B",".","T","e","c","h","/","M","C","A">>, 28000) >>

(***************************************************************************)
(* Inputs                                                                  *)
(***************************************************************************)
\* ids given to add_candidate / add_internship: one that replaces a sample
\* row and one that adds a row
AddCandidateIds == {1, 6}
AddInternshipIds == {1, 6}

\* candidates given to add_candidate (id filled in by the caller)
NewCandidates(id) ==
  { Candidate(id, << <<"P","y","t","h","o","n">>, <<"D","a","t","a"," ","A","n","a","l","y","s","i","s">>, <<"M","a","c","h","i","n","e"," ","L","e","a","r","n","i","n","g">> >>, <<"B",".","C","o","m">>,
              <<"d","e","l","h","i">>, <<"F","i","n","a","n","c","e">>, <<"G","e","n","e","r","a","l">>, <<"N","e","w"," ","D","e","l","h","i">>, TRUE, 92),
    Candidate(id, << >>, <<"M","B","A"," ","F","i","n","a","n","c","e">>,
              <<"P","u","n","e">>, <<"m","a","r","k","e","t","i","n","g">>, <<"O","B","C">>, <<"T","h","a","n","e">>, FALSE, 1200),
    Candidate(id, << <<"U","I","/","U","X">>, <<"F","i","g","m","a">>, <<"U","s","e","r"," ","R","e","s","e","a","r","c","h">> >>, <<"B",".","D","e","s">>,
              <<"H","y","d","e","r","a","b","a","d">>, <<"D","e","s","i","g","n">>, <<"S","T">>, <<"A","d","i","l","a","b","a","d">>, FALSE, 870) }

\* internships given to add_internship
NewInternships(id) ==
  { Internship(id, << <<"J","a","v","a">>, <<"S","p","r","i","n","g"," ","B","o","o","t">>, <<"S","Q","L">> >>, <<"M","u","m","b","a","i">>, <<"T","e","c","h","n","o","l","o","g","y">>, -5, <<"M","C","A">>, -1) }

(***************************************************************************)
(* round(x, 1) of a fraction x, as an integer number of tenths:            *)
(* nearest tenth, an exact half going to the even neighbour                *)
(***************************************************************************)
round1(x) ==
  LET n10 == 10 * x.num
      q == n10 \div x.den
      r == n10 - q * x.den
  IN  IF 2 * r < x.den THEN q
      ELSE IF 2 * r > x.den THEN q + 1
      ELSE IF q % 2 = 0 THEN q ELSE q + 1

(***************************************************************************)
(* The body of the inner loop of run_matching_algorithm: one Match         *)
(* Match.score is in tenths.                                               *)
(***************************************************************************)
status_of(score) ==
  IF score.num >= 70 * score.den THEN "excellent"
  ELSE IF score.num >= 50 * score.den THEN "good"
  ELSE "fair"

make_match(candidate, internship, timestamp) ==
  LET r == calculate_match_score(candidate, internship)
  IN  [candidate_id  |-> candidate.id,
       internship_id |-> internship.id,
       score         |-> round1(r.score),
       factors       |-> r.factors,
       status        |-> status_of(r.score),
       timestamp     |-> timestamp]


(***************************************************************************)
(* State                                                                   *)
(***************************************************************************)
VARIABLES
  candidates,       \* table candidates: id -> row
  internships,      \* table internships: id -> row
  db_matches,       \* table matches: the committed rows, in rowid order
  matches,          \* PMInternshipSystem.matches
  returned,         \* the list the last completed run returned to its caller
  outcome,          \* how the last operation ended
  lastOp,           \* the last operation called
  dirty,            \* a row was added or replaced since the last completed run
  adds,             \* number of add_candidate / add_internship calls so far
  completed,        \* number of runs that returned to their caller
  skills_call,      \* arguments and result of a direct call of
  skills_result,    \*   calculate_skills_match
  score_call,       \* arguments and result of a direct call of
  score_result      \*   calculate_match_score, and the Match built from it

sysvars == <<candidates, internships, db_matches, matches, returned,
             outcome, lastOp, dirty, adds, completed>>
skillvars == <<skills_call, skills_result>>
scorevars == <<score_call, score_result>>
vars == <<candidates, internships, db_matches, matches, returned,
          outcome, lastOp, dirty, adds, completed,
          skills_call, skills_result, score_call, score_result>>

(***************************************************************************)
(* InternshipDatabase: the candidates and internships tables               *)
(***************************************************************************)
\* a faulty variant of add_candidate: the table is emptied before the INSERT
add_candidate_after_delete(table, candidate) ==
  [id \in {candidate.id} |->
     [candidate EXCEPT !.past_participation = IF @ THEN 1 ELSE 0]]

\* INSERT OR REPLACE INTO candidates: the row with this id is added or replaced.
\* past_participation is stored in a BOOLEAN column as 0 or 1.
add_candidate(table, candidate) ==
  [id \in DOMAIN table \cup {candidate.id} |->
     IF id = candidate.id
       THEN [candidate EXCEPT !.past_participation = IF @ THEN 1 ELSE 0]
       ELSE table[id]]

\* INSERT OR REPLACE INTO internships
add_internship(table, internship) ==
  [id \in DOMAIN table \cup {internship.id} |->
     IF id = internship.id THEN internship ELSE table[id]]

\* SELECT * FROM t for a table with an INTEGER PRIMARY KEY: the scan visits
\* the rows in ascending key order
RECURSIVE select_all(_, _)
select_all(table, ids) ==
  IF ids = {} THEN <<>>
  ELSE LET first == CHOOSE i \in ids : \A j \in ids : i <= j
       IN  <<table[first]>> \o select_all(table, ids \ {first})

get_all_candidates(table) ==
  LET rows == select_all(table, DOMAIN table)
  IN  [k \in 1..Len(rows) |->
         [rows[k] EXCEPT !.past_participation = (@ # 0)]]

get_all_internships(table) == select_all(table, DOMAIN table)

\* the tables after the sample rows were inserted one by one
RECURSIVE load_candidates(_, _)
load_candidates(table, k) ==
  IF k = 0 THEN table
  ELSE add_candidate(load_candidates(table, k - 1), sample_candidates[k])

RECURSIVE load_internships(_, _)
load_internships(table, k) ==
  IF k = 0 THEN table
  ELSE add_internship(load_internships(table, k - 1), sample_internships[k])

EmptyTable == [id \in {} |-> id]


(***************************************************************************)
(* list.sort(key=lambda x: x.score, reverse=True): descending by score,    *)
(* stable (elements with equal score keep their order)                     *)
(***************************************************************************)
\* a faulty variant of insert_by_score (below): m goes before the elements of equal
\* score, as when the list is sorted ascending and then reversed
RECURSIVE insert_before_equal(_, _)
insert_before_equal(xs, m) ==
  IF xs = <<>> THEN <<m>>
  ELSE IF xs[1].score > m.score
    THEN <<xs[1]>> \o insert_before_equal(Tail(xs), m)
    ELSE <<m>> \o xs

\* xs is sorted; m goes after every element whose score is >= m.score
RECURSIVE insert_by_score(_, _)
insert_by_score(xs, m) ==
  IF xs = <<>> THEN <<m>>
  ELSE IF xs[1].score >= m.score
    THEN <<xs[1]>> \o insert_by_score(Tail(xs), m)
    ELSE <<m>> \o xs

RECURSIVE sort_by_score(_, _)
sort_by_score(xs, k) ==
  IF k = 0 THEN <<>>
  ELSE insert_by_score(sort_by_score(xs, k - 1), xs[k])

sort_desc(xs) == sort_by_score(xs, Len(xs))

\* xs[:n]
take(xs, n) == SubSeq(xs, 1, Min(n, Len(xs)))

(***************************************************************************)
(* PMInternshipSystem.run_matching_algorithm: the computation of           *)
(* all_matches from the two lists read at the start of the run             *)
(***************************************************************************)
\* candidate_matches after the inner loop over internships[1..k]
RECURSIVE candidate_matches_of(_, _, _, _)
candidate_matches_of(candidate, internship_list, k, timestamp) ==
  IF k = 0 THEN <<>>
  ELSE Append(candidate_matches_of(candidate, internship_list, k - 1, timestamp),
              make_match(candidate, internship_list[k], timestamp))

\* a faulty variant of top_matches: the sorted list is not cut to 3
all_sorted_matches(candidate, internship_list, timestamp) ==
  sort_desc(candidate_matches_of(candidate, internship_list,
                                 Len(internship_list), timestamp))

\* a faulty variant of top_matches: the list is cut to 3 before it is sorted
first_three_matches(candidate, internship_list, timestamp) ==
  sort_desc(take(candidate_matches_of(candidate, internship_list,
                                      Len(internship_list), timestamp), 3))

\* candidate_matches.sort(...); candidate_matches[:3]
top_matches(candidate, internship_list, timestamp) ==
  take(sort_desc(candidate_matches_of(candidate, internship_list,
                                      Len(internship_list), timestamp)), 3)

\* all_matches after the outer loop over candidates[1..k], before the final sort
RECURSIVE collect_matches(_, _, _, _)
collect_matches(candidate_list, internship_list, k, timestamp) ==
  IF k = 0 THEN <<>>
  ELSE collect_matches(candidate_list, internship_list, k - 1, timestamp)
       \o top_matches(candidate_list[k], internship_list, timestamp)

compute_all_matches(candidate_list, internship_list, timestamp) ==
  sort_desc(collect_matches(candidate_list, internship_list,
                            Len(candidate_list), timestamp))

(***************************************************************************)
(* InternshipDatabase.save_matches                                         *)
(* sqlite3 opens a transaction before the DELETE; the rows become the      *)
(* table's content at conn.commit().  An exception leaves save_matches     *)
(* before the commit, and the connection is dropped with its transaction   *)
(* open, which rolls it back.                                              *)
(* fail_point: NoFailure, or 0 (connect or DELETE raises), or j in         *)
(* 1..len(matches) (the j-th INSERT raises), or len(matches)+1 (commit     *)
(* raises).                                                                *)
(***************************************************************************)
NoFailure == -1

\* the tuple bound to one INSERT INTO matches
match_row(m) ==
  [candidate_id |-> m.candidate_id, internship_id |-> m.internship_id,
   score |-> m.score, factors |-> m.factors, status |-> m.status,
   timestamp |-> m.timestamp]

\* what the open transaction sees after the DELETE and the first k INSERTs
inserted_rows(match_list, k) == [i \in 1..k |-> match_row(match_list[i])]

\* a faulty variant of save_matches: every statement is committed as it is
\* executed (a connection in autocommit mode)
save_matches_autocommit(table, match_list, fail_point) ==
  LET executed ==
        IF fail_point = NoFailure \/ fail_point > Len(match_list)
          THEN Len(match_list)
          ELSE IF fail_point = 0 THEN 0 ELSE fail_point - 1
  IN  [table |-> IF fail_point = 0 THEN table ELSE inserted_rows(match_list, executed),
       raised |-> fail_point # NoFailure]

\* a faulty variant of save_matches: no DELETE, the new rows follow the old
save_matches_without_delete(table, match_list, fail_point) ==
  [table |-> IF fail_point = NoFailure
               THEN table \o inserted_rows(match_list, Len(match_list))
               ELSE table,
   raised |-> fail_point # NoFailure]

save_matches(table, match_list, fail_point) ==
  LET executed ==   \* number of INSERTs that completed
        IF fail_point = NoFailure \/ fail_point > Len(match_list)
          THEN Len(match_list)
          ELSE IF fail_point = 0 THEN 0 ELSE fail_point - 1
      transaction ==   \* the table as the connection sees it
        IF fail_point = 0 THEN table ELSE inserted_rows(match_list, executed)
      committed == (fail_point = NoFailure)
  IN  [table |-> IF committed THEN transaction ELSE table,
       raised |-> ~committed]


(***************************************************************************)
(* Inputs                                                                  *)
(***************************************************************************)
MaxAdds == 1
MaxRuns == 2

\* limit given to display_top_matches
DisplayLimits == {1, 10}

(***************************************************************************)
(* PMInternshipSystem.__init__                                             *)
(* The database file outlives the process.  Either it is new, and          *)
(* load_sample_data fills it, or its candidates table already has rows     *)
(* and load_sample_data returns at once: the file of a process that        *)
(* stopped inside load_sample_data after its first or its last             *)
(* add_candidate (each add_candidate commits on its own, and the           *)
(* internships come after the candidates).  No run has completed on it.    *)
(***************************************************************************)
InitStore ==
  \/ /\ candidates = load_candidates(EmptyTable, Len(sample_candidates))
     /\ internships = load_internships(EmptyTable, Len(sample_internships))
  \/ /\ \E k \in {1, Len(sample_candidates)} :
          candidates = load_candidates(EmptyTable, k)
     /\ internships = EmptyTable

\* no direct call of a scorer is under way
IdleSkills ==
  /\ skills_call = <<>>
  /\ skills_result = <<>>

IdleScore ==
  /\ score_call = <<>>
  /\ score_result = <<>>

Init ==
  /\ InitStore
  /\ db_matches = <<>>
  /\ matches = <<>>
  /\ returned = <<>>
  /\ outcome = "none"
  /\ lastOp = "init"
  /\ dirty = FALSE
  /\ adds = 0
  /\ completed = 0
  /\ IdleSkills
  /\ IdleScore

(***************************************************************************)
(* Operations                                                              *)
(***************************************************************************)
AddCandidate(c) ==
  /\ adds < MaxAdds
  /\ candidates' = add_candidate(candidates, c)
  /\ adds' = adds + 1
  /\ dirty' = TRUE
  /\ outcome' = "ok"
  /\ lastOp' = "add_candidate"
  /\ UNCHANGED <<internships, db_matches, matches, returned, completed>>
  /\ UNCHANGED <<skillvars, scorevars>>

AddInternship(i) ==
  /\ adds < MaxAdds
  /\ internships' = add_internship(internships, i)
  /\ adds' = adds + 1
  /\ dirty' = TRUE
  /\ outcome' = "ok"
  /\ lastOp' = "add_internship"
  /\ UNCHANGED <<candidates, db_matches, matches, returned, completed>>
  /\ UNCHANGED <<skillvars, scorevars>>

\* run_matching_algorithm; save_matches ends as fail_point says
RunMatchingAlgorithm ==
  /\ completed < MaxRuns
  /\ LET candidate_list == get_all_candidates(candidates)
         internship_list == get_all_internships(internships)
         all_matches == compute_all_matches(candidate_list, internship_list, completed)
     IN  \E fail_point \in {NoFailure} \cup 0..(Len(all_matches) + 1) :
           LET saved == save_matches(db_matches, all_matches, fail_point)
           IN  /\ db_matches' = saved.table
               /\ IF saved.raised
                    THEN /\ outcome' = "raised"
                         /\ UNCHANGED <<matches, returned, dirty, completed>>
                    ELSE /\ matches' = all_matches
                         /\ returned' = all_matches
                         /\ dirty' = FALSE
                         /\ completed' = completed + 1
                         /\ outcome' = "ok"
  /\ lastOp' = "run"
  /\ UNCHANGED <<candidates, internships, adds>>
  /\ UNCHANGED <<skillvars, scorevars>>

\* the dictionary lookups of display_top_matches and export_results_to_csv
\* over the matches they visit: KeyError when an id has no row
lookups_succeed(match_list) ==
  \A k \in 1..Len(match_list) :
    /\ match_list[k].candidate_id \in DOMAIN candidates
    /\ match_list[k].internship_id \in DOMAIN internships

DisplayTopMatches(limit) ==
  /\ lastOp' = "display"
  /\ outcome' = IF matches = <<>> THEN "no_matches"
                ELSE IF lookups_succeed(take(matches, limit)) THEN "shown"
                ELSE "KeyError"
  /\ UNCHANGED <<candidates, internships, db_matches, matches, returned,
                 dirty, adds, completed>>
  /\ UNCHANGED <<skillvars, scorevars>>

ExportResultsToCsv ==
  /\ lastOp' = "export"
  /\ outcome' = IF matches = <<>> THEN "no_matches"
                ELSE IF lookups_succeed(matches) THEN "exported"
                ELSE "KeyError"
  /\ UNCHANGED <<candidates, internships, db_matches, matches, returned,
                 dirty, adds, completed>>
  /\ UNCHANGED <<skillvars, scorevars>>

Next ==
  \/ \E id \in AddCandidateIds : \E c \in NewCandidates(id) : AddCandidate(c)
  \/ \E id \in AddInternshipIds : \E i \in NewInternships(id) : AddInternship(i)
  \/ RunMatchingAlgorithm
  \/ \E limit \in DisplayLimits : DisplayTopMatches(limit)
  \/ ExportResultsToCsv

Spec == Init /\ [][Next]_vars


(***************************************************************************)
(* Direct calls of calculate_skills_match, over every pair of skill lists  *)
(* up to the bounds                                                        *)
(***************************************************************************)
SkillLabels == { <<"J","a","v","a">>, <<"j","a","v","a">>, <<"J","a","v","a","S","c","r","i","p","t">>, <<"P","y","t","h","o","n">>, <<"S","Q","L">> }

SeqsUpTo(S, n) == UNION { [1..k -> S] : k \in 0..n }

IdleSystem ==
  /\ candidates = EmptyTable
  /\ internships = EmptyTable
  /\ db_matches = <<>>
  /\ matches = <<>>
  /\ returned = <<>>
  /\ outcome = "none"
  /\ lastOp = "init"
  /\ dirty = FALSE
  /\ adds = 0
  /\ completed = 0

InitSkills ==
  /\ IdleSystem
  /\ IdleScore
  /\ \E cs \in SeqsUpTo(SkillLabels, MaxCandSkills) :
       \E rs \in SeqsUpTo(SkillLabels, MaxReqSkills) :
         skills_call = <<cs, rs>>
  /\ skills_result = <<>>

CallSkillsMatch ==
  /\ skills_result = <<>>
  /\ skills_result' = << calculate_skills_match(skills_call[1], skills_call[2]) >>
  /\ UNCHANGED <<skills_call, sysvars, scorevars>>

NextSkills == CallSkillsMatch

SpecSkills == InitSkills /\ [][NextSkills]_vars

(***************************************************************************)
(* Direct calls of calculate_match_score, and of the Match construction    *)
(* of the run's inner loop, over a product of field values                 *)
(***************************************************************************)
ScoreCandidates ==
  { Candidate(1, sk, <<"M","C","A">>, loc, <<"T","e","c","h","n","o","l","o","g","y">>, cat, dis, past, cgpa) :
      sk \in { << >>, << <<"J","a","v","a","S","c","r","i","p","t">>, <<"J","a","v","a">> >>, << <<"j","a","v","a">>, <<"S","Q","L">> >> },
      loc \in { <<"D","e","l","h","i">>, <<"P","u","n","e">> },
      cat \in { <<"G","e","n","e","r","a","l">>, <<"O","B","C">>, <<"S","C">>, <<"S","T">> },
      dis \in { <<"T","h","a","n","e">>, <<"A","d","i","l","a","b","a","d">>, <<"r","u","r","a","l"," ","T","h","a","n","e">>, <<"R","u","r","a","l"," ","K","o","r","a","p","u","t">> },
      past \in BOOLEAN,
      cgpa \in { -100, 0, 92, 1000, 1200 } }

ScoreInternships ==
  { Internship(1, rs, loc, sec, 10, pq, 25000) :
      rs \in { << >>, << <<"J","a","v","a">> >>, << <<"J","a","v","a">>, <<"S","Q","L">>, <<"P","y","t","h","o","n">> >> },
      loc \in { <<"d","e","l","h","i">>, <<"M","u","m","b","a","i">>, <<"N","a","g","p","u","r">> },
      sec \in { <<"t","e","c","h","n","o","l","o","g","y">>, <<"F","i","n","a","n","c","e">> },
      pq \in { <<>>, <<"B",".","T","e","c","h"," ","M","C","A">> } }

InitScore ==
  /\ IdleSystem
  /\ IdleSkills
  /\ \E c \in ScoreCandidates : \E i \in ScoreInternships : score_call = <<c, i>>
  /\ score_result = <<>>

CallMatchScore ==
  /\ score_result = <<>>
  /\ LET r == calculate_match_score(score_call[1], score_call[2])
     IN  score_result' =
           << [score |-> r.score, factors |-> r.factors,
               match |-> make_match(score_call[1], score_call[2], completed)] >>
  /\ UNCHANGED <<score_call, sysvars, skillvars>>

NextScore == CallMatchScore

SpecScore == InitScore /\ [][NextScore]_vars


(***************************************************************************)
(* Properties                                                              *)
(***************************************************************************)
\* the last operation was a run that returned its list
RunCompleted == lastOp = "run" /\ outcome = "ok"

\* the last operation was a run that save_matches made fail
RunFailed == lastOp = "run" /\ outcome = "raised"

\* number of entries of match_list that carry candidate id
CountFor(match_list, id) ==
  Cardinality({ k \in 1..Len(match_list) : match_list[k].candidate_id = id })

\* C1: after a run, every candidate of the snapshot has exactly
\* min(3, number of opportunities) matches in the returned list, in
\* self.matches and in the matches table; never more than 3.
C1_TopThreePerCandidate ==
  RunCompleted =>
    \A id \in DOMAIN candidates :
      LET expected == Min(3, Cardinality(DOMAIN internships))
      IN  /\ CountFor(returned, id) = expected
          /\ CountFor(matches, id) = expected
          /\ CountFor(db_matches, id) = expected
          /\ CountFor(returned, id) <= 3

\* a run over more than 3 opportunities returned, and a candidate kept 3
C1_Witness ==
  /\ RunCompleted
  /\ Cardinality(DOMAIN internships) > 3
  /\ \E id \in DOMAIN candidates : CountFor(returned, id) = 3

\* the list as it was collected by the run that just returned, before the
\* final sort: candidate by candidate, each candidate's retained list in order
Collected ==
  collect_matches(get_all_candidates(candidates), get_all_internships(internships),
                  Cardinality(DOMAIN candidates), completed - 1)

PositionIn(match_list, m) ==
  CHOOSE k \in 1..Len(match_list) :
    /\ match_list[k].candidate_id = m.candidate_id
    /\ match_list[k].internship_id = m.internship_id

\* C2: the returned list is non-increasing in score, and two matches of
\* equal score appear in the order in which they were collected.
C2_SortedStable ==
  RunCompleted =>
    \A i, j \in 1..Len(returned) :
      i < j =>
        /\ returned[i].score >= returned[j].score
        /\ returned[i].score = returned[j].score =>
             PositionIn(Collected, returned[i]) < PositionIn(Collected, returned[j])

\* a returned list with a tie between two candidates and a tie between two
\* matches of one candidate
C2_Witness ==
  /\ RunCompleted
  /\ \E i, j \in 1..Len(returned) :
       /\ i < j
       /\ returned[i].score = returned[j].score
       /\ returned[i].candidate_id # returned[j].candidate_id
  /\ \E i, j \in 1..Len(returned) :
       /\ i < j
       /\ returned[i].score = returned[j].score
       /\ returned[i].candidate_id = returned[j].candidate_id

\* the tier that the stored score (in tenths) stands for
TierOf(score) ==
  IF score >= 700 THEN "excellent" ELSE IF score >= 500 THEN "good" ELSE "fair"

\* C3: the status of every Match of a run is the tier of its stored,
\* rounded score: excellent iff >= 70.0, good iff in [50.0, 70.0), else fair.
C3_StatusFromStoredScore ==
  \A k \in 1..Len(returned) : returned[k].status = TierOf(returned[k].score)

\* C4: when save_matches fails, at whatever point, the matches table and
\* self.matches are what the last completed run left (empty if there was
\* none); a partly written or emptied table is never committed.
C4_FailedSaveKeepsPrevious ==
  /\ RunFailed =>
       /\ matches = returned
       /\ db_matches = inserted_rows(returned, Len(returned))
  /\ db_matches = inserted_rows(matches, Len(matches))

\* a run failed in save_matches after an earlier run had stored matches and
\* a row had changed since
C4_Witness ==
  /\ RunFailed
  /\ completed >= 1
  /\ dirty
  /\ Len(returned) > 0

\* C5: after a completed run the matches table and self.matches hold
\* exactly that run's list, in its order, and every entry was made by that
\* run.
C5_ReplacedInFull ==
  RunCompleted =>
    /\ matches = returned
    /\ db_matches = inserted_rows(returned, Len(returned))
    /\ \A k \in 1..Len(db_matches) : db_matches[k].timestamp = completed - 1

\* a second run completed after a row was added or replaced
C5_Witness ==
  /\ RunCompleted
  /\ completed >= 2
  /\ adds >= 1
  /\ Len(db_matches) > 0

\* a record that the data model rules out
MalformedCandidate(c) == c.cgpa < 0 \/ c.cgpa > 1000
MalformedInternship(i) == i.capacity < 0 \/ i.stipend < 0

SnapshotMalformed ==
  \/ \E id \in DOMAIN candidates : MalformedCandidate(candidates[id])
  \/ \E id \in DOMAIN internships : MalformedInternship(internships[id])

\* C6: a run over a snapshot with a malformed record ends in a validation
\* error, before any scoring.
C6_MalformedRejected ==
  (lastOp = "run" /\ SnapshotMalformed) => outcome = "validation_error"


\* the two skill labels are equal ignoring case
EqualIgnoringCase(a, b) == lower(a) = lower(b)

\* one label contains the other ignoring case, or both are entries of one
\* domain group
LooselyRelated(a, b) ==
  \/ str_in(lower(a), lower(b))
  \/ str_in(lower(b), lower(a))
  \/ \E g \in 1..Len(skill_groups) :
       list_in(lower(a), skill_groups[g]) /\ list_in(lower(b), skill_groups[g])

\* every required skill is equal, ignoring case, to some candidate skill
AllRequiredPresent(cs, rs) ==
  \A i \in 1..Len(rs) : \E j \in 1..Len(cs) : EqualIgnoringCase(rs[i], cs[j])

\* ... and no candidate skill listed before the first such one is loosely
\* related to the required skill
AllRequiredPresentFirst(cs, rs) ==
  \A i \in 1..Len(rs) :
    \E j \in 1..Len(cs) :
      /\ EqualIgnoringCase(rs[i], cs[j])
      /\ \A k \in 1..(j - 1) : ~LooselyRelated(rs[i], cs[k])

IsOne(x) == x.num = x.den

\* C7 as stated: a non-empty required list whose every skill is equal,
\* ignoring case, to some candidate skill scores exactly 1.0, whatever the
\* order of the candidate's skills and whatever else the candidate lists.
C7_AllPresentScoresOne ==
  (/\ skills_result # <<>>
   /\ skills_call[2] # <<>>
   /\ AllRequiredPresent(skills_call[1], skills_call[2]))
    => IsOne(skills_result[1])

\* C7 amended: a non-empty required list scores exactly 1.0 when, for every
\* required skill, the first candidate skill in list order that is related
\* to it at all (equal, substring either way, or same domain group, ignoring
\* case) is equal to it ignoring case.
C7_FirstRelatedEqualScoresOne ==
  (/\ skills_result # <<>>
   /\ skills_call[2] # <<>>
   /\ AllRequiredPresentFirst(skills_call[1], skills_call[2]))
    => IsOne(skills_result[1])

\* the call returned for two required skills found, in another order, in a
\* candidate list that has a further skill
C7_Witness ==
  /\ skills_result # <<>>
  /\ Len(skills_call[2]) = 2
  /\ Len(skills_call[1]) = 3
  /\ AllRequiredPresentFirst(skills_call[1], skills_call[2])
  /\ ~EqualIgnoringCase(skills_call[2][1], skills_call[1][1])
  /\ IsOne(skills_result[1])

\* x lies in [0, 100]
InPercentRange(x) == 0 <= x.num /\ x.num <= 100 * x.den

\* C8: for a candidate with cgpa in [0, 10], the score that
\* calculate_match_score returns and the rounded score of the Match lie in
\* [0.0, 100.0], and each of the six factors lies in [0, 100].
C8_ScoreInRange ==
  (score_result # <<>> /\ score_call[1].cgpa \in 0..1000) =>
    LET r == score_result[1]
    IN  /\ InPercentRange(r.score)
        /\ 0 <= r.match.score /\ r.match.score <= 1000
        /\ DOMAIN r.factors = {"skills", "location", "sector", "qualification",
                               "diversity", "academic"}
        /\ \A f \in DOMAIN r.factors : InPercentRange(r.factors[f])

\* a pair was scored whose candidate collects more than 1.0 of diversity
\* bonuses (ST, aspirational district, rural, first time) and a full cgpa
C8_Witness ==
  /\ score_result # <<>>
  /\ score_call[1].cgpa = 1000
  /\ score_call[1].category = <<"S","T">>
  /\ score_call[1].district = <<"R","u","r","a","l"," ","K","o","r","a","p","u","t">>
  /\ ~score_call[1].past_participation
  /\ score_result[1].factors.diversity.num = 100 * score_result[1].factors.diversity.den

\* a match list without its timestamps
WithoutTimestamps(match_list) ==
  [k \in 1..Len(match_list) |->
     [candidate_id |-> match_list[k].candidate_id,
      internship_id |-> match_list[k].internship_id,
      score |-> match_list[k].score,
      factors |-> match_list[k].factors,
      status |-> match_list[k].status]]

\* C9: a run that completes when no row was added or replaced since the
\* previous completed run returns the same list, position by position and
\* timestamps apart, and leaves the same rows in the matches table.
C9_RerunIdempotent ==
  [][ (completed >= 1 /\ ~dirty /\ completed' = completed + 1) =>
        /\ WithoutTimestamps(returned') = WithoutTimestamps(returned)
        /\ WithoutTimestamps(db_matches') = WithoutTimestamps(db_matches)
        /\ Len(db_matches') = Len(returned') ]_vars

\* two runs completed with no row added or replaced at all
C9_Witness ==
  /\ RunCompleted
  /\ completed = 2
  /\ adds = 0
  /\ Len(returned) > 3

\* C10: every Match in self.matches names a candidate and an internship
\* that have a row, so no lookup of display_top_matches or
\* export_results_to_csv raises KeyError.
C10_ReferentialIntegrity ==
  /\ \A k \in 1..Len(matches) :
       /\ matches[k].candidate_id \in DOMAIN candidates
       /\ matches[k].internship_id \in DOMAIN internships
  /\ outcome # "KeyError"

\* the matches were displayed after a row was added or replaced since the run
C10_Witness ==
  /\ lastOp = "display"
  /\ outcome = "shown"
  /\ dirty
  /\ Len(matches) > 0

\* C11: display_top_matches and export_results_to_csv report that there are
\* no matches exactly when no run has completed; after a completed run, one
\* over an empty snapshot included, they act on its result.
C11_GatedOnCompletedRun ==
  lastOp \in {"display", "export"} =>
    (outcome = "no_matches" <=> completed = 0)

\* the contribution, in tenths, that candidate skill c earns for required
\* skill r: 1.0 if equal ignoring case, else 0.7 if one is a substring of
\* the other ignoring case, else 0.5 if both are entries of one domain
\* group, else nothing
ContributionOf(r, c) ==
  LET rl == lower(r)
      cl == lower(c)
  IN  IF rl = cl THEN 10
      ELSE IF str_in(rl, cl) \/ str_in(cl, rl) THEN 7
      ELSE IF \E g \in 1..Len(skill_groups) :
                list_in(rl, skill_groups[g]) /\ list_in(cl, skill_groups[g]) THEN 5
      ELSE 0

\* the positions of the candidate skills that are related to r at all
RelatedPositions(r, cs) == { j \in 1..Len(cs) : ContributionOf(r, cs[j]) > 0 }

\* the contribution of the first related candidate skill, 0 if there is none
FirstContribution(r, cs) ==
  LET related == RelatedPositions(r, cs)
  IN  IF related = {} THEN 0
      ELSE ContributionOf(r, cs[CHOOSE j \in related : \A k \in related : j <= k])

\* the sum of the first contributions over the required skills, in tenths
ContributionSum(cs, rs) ==
  LET sum[i \in 0..Len(rs)] ==
        IF i = 0 THEN 0 ELSE sum[i - 1] + FirstContribution(rs[i], cs)
  IN  sum[Len(rs)]

\* C12: calculate_skills_match returns 0 when either list is empty, and
\* otherwise the sum over the required skills of the contribution of the
\* first related candidate skill (in list order, even if a later one is
\* better), divided by the number of required skills and capped at 1.0.
C12_FirstRelatedWins ==
  skills_result # <<>> =>
    LET cs == skills_call[1]
        rs == skills_call[2]
        x == skills_result[1]
    IN  IF cs = <<>> \/ rs = <<>>
          THEN x.num = 0
          ELSE x.num * 10 * Len(rs)
                 = Min(ContributionSum(cs, rs), 10 * Len(rs)) * x.den

\* the call returned for a required skill whose first related candidate
\* skill earns less than a later one would
C12_Witness ==
  /\ skills_result # <<>>
  /\ \E i \in 1..Len(skills_call[2]) :
       \E k \in 1..Len(skills_call[1]) :
         /\ FirstContribution(skills_call[2][i], skills_call[1]) > 0
         /\ ContributionOf(skills_call[2][i], skills_call[1][k])
              > FirstContribution(skills_call[2][i], skills_call[1])
  /\ ~IsOne(skills_result[1])

\* the matches of the candidate with this id against every internship of the
\* snapshot that the run which just returned has read, in iteration order
AllMatchesOf(id) ==
  LET internship_list == get_all_internships(internships)
      candidate == [candidates[id] EXCEPT !.past_participation = (@ # 0)]
  IN  [k \in 1..Len(internship_list) |->
         make_match(candidate, internship_list[k], completed - 1)]

\* the run retained match m
Retained(m) ==
  \E j \in 1..Len(returned) :
    /\ returned[j].candidate_id = m.candidate_id
    /\ returned[j].internship_id = m.internship_id

\* C13: for every candidate, no match that the run discarded has a score
\* greater than one it retained, and a discarded match that ties with a
\* retained one belongs to an internship later in the iteration order.
C13_BestThreeRetained ==
  RunCompleted =>
    \A id \in DOMAIN candidates :
      LET all == AllMatchesOf(id)
      IN  \A d, r \in 1..Len(all) :
            (~Retained(all[d]) /\ Retained(all[r])) =>
              /\ all[d].score <= all[r].score
              /\ all[d].score = all[r].score => r < d

\* a run discarded a match that ties with one it retained for the same
\* candidate
C13_Witness ==
  /\ RunCompleted
  /\ \E id \in DOMAIN candidates :
       LET all == AllMatchesOf(id)
       IN  \E d, r \in 1..Len(all) :
             /\ ~Retained(all[d])
             /\ Retained(all[r])
             /\ all[d].score = all[r].score

\* the four bonuses of a candidate, in thousandths
CategoryBonus(c) ==
  IF c.category = <<"S","C">> \/ c.category = <<"S","T">> THEN 500
  ELSE IF c.category = <<"O","B","C">> THEN 300
  ELSE 0

InAspirationalDistrict(c) ==
  \E d \in 1..Len(aspirational_districts) :
    str_in(lower(aspirational_districts[d]), lower(c.district))

AspirationalBonus(c) == IF InAspirationalDistrict(c) THEN 300 ELSE 0
RuralBonus(c) == IF str_in(<<"r","u","r","a","l">>, lower(c.district)) THEN 200 ELSE 0
FirstTimeBonus(c) == IF c.past_participation THEN 0 ELSE 200

\* C14: the diversity score is min(1.0, c + a + r + p), each bonus applied
\* whatever the others are; category SC with an aspirational district and
\* no previous placement scores exactly 1.0.
C14_DiversityIsCappedSum ==
  score_result # <<>> =>
    LET c == score_call[1]
        x == score_result[1].factors.diversity
    IN  /\ x.den = 10
        /\ x.num = Min(1000, CategoryBonus(c) + AspirationalBonus(c)
                               + RuralBonus(c) + FirstTimeBonus(c))
        /\ (c.category = <<"S","C">> /\ InAspirationalDistrict(c) /\ ~c.past_participation)
             => x.num = 1000

\* the score was returned for an SC candidate of an aspirational district
\* that is not rural, never placed before: 0.5 + 0.3 + 0.2 with no cap
C14_Witness ==
  /\ score_result # <<>>
  /\ score_call[1].category = <<"S","C">>
  /\ InAspirationalDistrict(score_call[1])
  /\ RuralBonus(score_call[1]) = 0
  /\ ~score_call[1].past_participation
  /\ score_result[1].factors.diversity.num = 1000

====
